---- MODULE Spec2Model ----
(***************************************************************************)
(* A model of the BookStack tool (src/bookstack_tool.py): the API client,  *)
(* the query optimizer, and the search and get_page operations.            *)
(*                                                                         *)
(* Text that the code inspects or rewrites (queries, excerpts, page        *)
(* bodies) is a sequence of one-character strings.  Text the code only     *)
(* copies (titles, urls, reason phrases) is an atomic string.  A JSON      *)
(* object is a function from its keys to its values, so that dict.get      *)
(* with a default can be modelled as the code uses it.                     *)
(***************************************************************************)
EXTENDS Integers, Sequences, FiniteSets, TLC

VARIABLES valves, server, inv, opt, cli, san

vars == <<valves, server, inv, opt, cli, san>>

(***************************************************************************)
(* Generic helpers on sequences.                                           *)
(***************************************************************************)
Min(a, b) == IF a < b THEN a ELSE b

Max(a, b) == IF a > b THEN a ELSE b

\* Python's s[:n] for any integer n: a negative n drops the last -n items.
SliceTo(s, n) ==
    IF n >= 0 THEN SubSeq(s, 1, Min(n, Len(s)))
    ELSE SubSeq(s, 1, Max(Len(s) + n, 0))

\* All sequences over S of length at most n.
SeqsUpTo(S, n) == UNION {[1..k -> S] : k \in 0..n}

RECURSIVE Flatten(_)
Flatten(ss) == IF ss = <<>> THEN <<>> ELSE Head(ss) \o Flatten(Tail(ss))

(***************************************************************************)
(* Characters: str.lower() and the whitespace str.split() splits on.       *)
(***************************************************************************)
UpperCase == <<"A","B","C","D","E","F","G","H","I","J","K","L","M",
               "N","O","P","Q","R","S","T","U","V","W","X","Y","Z">>

LowerCase == <<"a","b","c","d","e","f","g","h","i","j","k","l","m",
               "n","o","p","q","r","s","t","u","v","w","x","y","z">>

Whitespace == {" ", "\t", "\n", "\r"}

LowerChar(c) ==
    IF \E i \in DOMAIN UpperCase : UpperCase[i] = c
    THEN LowerCase[CHOOSE i \in DOMAIN UpperCase : UpperCase[i] = c]
    ELSE c

Lower(s) == [i \in DOMAIN s |-> LowerChar(s[i])]

\* str.split() with no argument: maximal runs of non-whitespace characters.
RECURSIVE SplitFrom(_, _, _)
SplitFrom(s, i, cur) ==
    IF i > Len(s) THEN (IF cur = <<>> THEN <<>> ELSE <<cur>>)
    ELSE IF s[i] \in Whitespace
         THEN (IF cur = <<>> THEN <<>> ELSE <<cur>>) \o SplitFrom(s, i + 1, <<>>)
         ELSE SplitFrom(s, i + 1, Append(cur, s[i]))

Split(s) == SplitFrom(s, 1, <<>>)

\* " ".join(words)
RECURSIVE JoinSpace(_)
JoinSpace(ws) ==
    IF ws = <<>> THEN <<>>
    ELSE IF Len(ws) = 1 THEN ws[1]
    ELSE ws[1] \o <<" ">> \o JoinSpace(Tail(ws))

RECURSIVE Filter(_, _)
Filter(ws, keep) ==
    IF ws = <<>> THEN <<>>
    ELSE (IF Head(ws) \in keep THEN <<Head(ws)>> ELSE <<>>) \o Filter(Tail(ws), keep)

(***************************************************************************)
(* Tools._optimize_query                                                   *)
(***************************************************************************)
stopwoorden ==
    { <<"w","e","l","k","e">>, <<"w","a","t">>, <<"i","s">>, <<"z","i","j","n">>,
      <<"e","r">>, <<"d","e">>, <<"h","e","t">>, <<"e","e","n">>, <<"v","a","n">>,
      <<"i","n">>, <<"v","o","o","r">>, <<"o","p">>, <<"a","a","n">>,
      <<"m","e","t">>, <<"t","e">>, <<"h","o","e">>, <<"k","a","n">>,
      <<"m","o","e","t">>, <<"w","a","a","r">>,
      <<"w","h","i","c","h">>, <<"w","h","a","t">>, <<"a","r","e">>,
      <<"t","h","e">>, <<"a">>, <<"a","n">>, <<"o","f">>, <<"f","o","r">>,
      <<"o","n">>, <<"a","t">>, <<"t","o">>, <<"h","o","w">>, <<"c","a","n">>,
      <<"s","h","o","u","l","d">>, <<"w","h","e","r","e">>,
      <<"t","h","e","r","e">> }

\* Mutant: the length filter keeps tokens of length 2 (len(w) >= 2).
belangrijke_woorden_len2(query) ==
    LET woorden == Split(Lower(query))
    IN  Filter(woorden, {w \in {woorden[i] : i \in DOMAIN woorden} :
                            w \notin stopwoorden /\ Len(w) >= 2})

belangrijke_woorden(query) ==
    LET woorden == Split(Lower(query))
    IN  Filter(woorden, {w \in {woorden[i] : i \in DOMAIN woorden} :
                            w \notin stopwoorden /\ Len(w) > 2})

\* Mutant: the fallback for "nothing left" is dropped.
optimize_no_fallback(query) == JoinSpace(belangrijke_woorden(query))

_optimize_query(query) ==
    IF Len(belangrijke_woorden(query)) < 1
    THEN query
    ELSE JoinSpace(belangrijke_woorden(query))

(***************************************************************************)
(* JSON values as r.json() yields them.  The body of a response is a JSON  *)
(* value, or text that is no JSON at all (r.json() raises).                *)
(***************************************************************************)
EmptyMap == [k \in {} |-> k]

JObject(f) == [t |-> "object", v |-> f]

JString(s) == [t |-> "string", v |-> s]

JNull == [t |-> "null", v |-> EmptyMap]

JList(l) == [t |-> "list", v |-> l]

NotJson == [t |-> "invalid", v |-> EmptyMap]

\* dict.get(key, default) on a mapping f.
DictGet(f, key, default) == IF key \in DOMAIN f THEN f[key] ELSE default

(***************************************************************************)
(* What the server answers to one GET: a response (status line and body),  *)
(* or no response at all (the connection fails).                           *)
(***************************************************************************)
Response(status, reason, body) ==
    [kind |-> "response", status_code |-> status, reason |-> reason,
     body |-> body, exc |-> ""]

NoResponse(exc) ==
    [kind |-> "exception", status_code |-> 0, reason |-> "", body |-> NotJson,
     exc |-> exc]

ReasonPhrase(status) ==
    CASE status = 200 -> "OK"
      [] status = 204 -> "No Content"
      [] status = 304 -> "Not Modified"
      [] status = 400 -> "Bad Request"
      [] status = 401 -> "Unauthorized"
      [] status = 403 -> "Forbidden"
      [] status = 404 -> "Not Found"
      [] status = 429 -> "Too Many Requests"
      [] status = 500 -> "Internal Server Error"
      [] status = 503 -> "Service Unavailable"
      [] OTHER -> "Unknown"

(***************************************************************************)
(* BookStackApiClient.__init__: the session retries a GET whose status is  *)
(* in status_forcelist; when the retries are used up the session raises.   *)
(* The server gives every attempt of one GET the same answer.              *)
(***************************************************************************)
status_forcelist == {429, 500, 502, 503, 504}

\* Retry(total=3, ...): the retries after the first attempt.
RetryTotal == 3

\* One attempt, with so many retries left.  Retry is built without
\* raise_on_status=False, so the attempt after the last retry raises
\* RetryError instead of handing the response to the caller.
RECURSIVE session_attempt(_, _)
session_attempt(reply, retries_left) ==
    IF reply.kind = "response" /\ reply.status_code \in status_forcelist
    THEN IF retries_left = 0 THEN NoResponse("RetryError")
         ELSE session_attempt(reply, retries_left - 1)
    ELSE reply

session_get(reply) == session_attempt(reply, RetryTotal)

(***************************************************************************)
(* BookStackApiClient.get.  The outcome of a call: it returns data, or it  *)
(* raises the typed BookStackClientRequestFailedError, or another error.   *)
(***************************************************************************)
TypedError == "BookStackClientRequestFailedError"

Returns(data) ==
    [ret |-> "return", data |-> data, exc |-> "", status_code |-> 0, error |-> ""]

Raises(exc) ==
    [ret |-> "raise", data |-> JNull, exc |-> exc, status_code |-> 0, error |-> ""]

RaisesTyped(status, msg) ==
    [ret |-> "raise", data |-> JNull, exc |-> TypedError, status_code |-> status,
     error |-> msg]

\* x or y, for x a JSON string or null.
StrOr(x, y) == IF x.t = "string" /\ x.v # "" THEN x.v ELSE y

\* Lines 75-77: data.get("error", {}).get("message") or r.reason
get_failure(r, data) ==
    IF data.t # "object" THEN Raises("AttributeError")
    ELSE LET err == DictGet(data.v, "error", JObject(EmptyMap))
         IN  IF err.t # "object" THEN Raises("AttributeError")
             ELSE RaisesTyped(r.status_code,
                              StrOr(DictGet(err.v, "message", JNull), r.reason))

\* Lines 71-78, on the response r the session returned.
get_response(r) ==
    LET data == IF r.body.t = "invalid" THEN JObject(EmptyMap) ELSE r.body
    IN  IF r.status_code >= 300 THEN get_failure(r, data) ELSE Returns(data)

get(reply) ==
    LET r == session_get(reply)
    IN  IF r.kind = "exception" THEN Raises(r.exc) ELSE get_response(r)

(***************************************************************************)
(* Text clean-up: html.unescape and the regular expressions of search and  *)
(* get_page.  A character reference is one symbol of the text ("&lt;"),    *)
(* which html.unescape replaces by the character it names; the result is   *)
(* not scanned again.                                                      *)
(***************************************************************************)
UnescapeChar(c) ==
    CASE c = "&lt;" -> "<"
      [] c = "&gt;" -> ">"
      [] c = "&amp;" -> "&"
      [] OTHER -> c

\* html.unescape(s)
Unescape(s) == [i \in DOMAIN s |-> UnescapeChar(s[i])]

\* The least j >= i with s[j] = c, or 0.
IndexFrom(s, i, c) ==
    IF \E j \in i..Len(s) : s[j] = c
    THEN CHOOSE j \in i..Len(s) : s[j] = c /\ \A k \in i..(j - 1) : s[k] # c
    ELSE 0

\* The least j >= i with s[j] no whitespace, or Len(s) + 1.
SkipSpace(s, i) ==
    IF \E j \in i..Len(s) : s[j] \notin Whitespace
    THEN CHOOSE j \in i..Len(s) :
            s[j] \notin Whitespace /\ \A k \in i..(j - 1) : s[k] \in Whitespace
    ELSE Len(s) + 1

\* re.sub(r'<[^>]+>', rep, s)
RECURSIVE SubTagsFrom(_, _, _)
SubTagsFrom(s, i, rep) ==
    IF i > Len(s) THEN <<>>
    ELSE IF s[i] = "<" /\ IndexFrom(s, i + 1, ">") > i + 1
         THEN rep \o SubTagsFrom(s, IndexFrom(s, i + 1, ">") + 1, rep)
         ELSE <<s[i]>> \o SubTagsFrom(s, i + 1, rep)

SubTags(s, rep) == SubTagsFrom(s, 1, rep)

\* Where a match of <br\s*/?> that starts at i ends, or 0.
BrEnd(s, i) ==
    IF i + 2 <= Len(s) /\ s[i] = "<" /\ s[i + 1] = "b" /\ s[i + 2] = "r"
    THEN LET k == SkipSpace(s, i + 3)
             m == IF k <= Len(s) /\ s[k] = "/" THEN k + 1 ELSE k
         IN  IF m <= Len(s) /\ s[m] = ">" THEN m ELSE 0
    ELSE 0

\* re.sub(r'<br\s*/?>', '\n', s)
RECURSIVE SubBrFrom(_, _)
SubBrFrom(s, i) ==
    IF i > Len(s) THEN <<>>
    ELSE IF BrEnd(s, i) # 0 THEN <<"\n">> \o SubBrFrom(s, BrEnd(s, i) + 1)
         ELSE <<s[i]>> \o SubBrFrom(s, i + 1)

SubBr(s) == SubBrFrom(s, 1)

\* re.sub(r'<p>', '\n', s)
RECURSIVE SubPFrom(_, _)
SubPFrom(s, i) ==
    IF i > Len(s) THEN <<>>
    ELSE IF i + 2 <= Len(s) /\ s[i] = "<" /\ s[i + 1] = "p" /\ s[i + 2] = ">"
         THEN <<"\n">> \o SubPFrom(s, i + 3)
         ELSE <<s[i]>> \o SubPFrom(s, i + 1)

SubP(s) == SubPFrom(s, 1)

\* Where a match of \n\s*\n+ that starts at i ends, or 0: the last newline
\* of the whitespace that follows s[i].
BlankEnd(s, i) ==
    IF s[i] = "\n"
    THEN LET e == SkipSpace(s, i + 1) - 1
         IN  IF \E k \in (i + 1)..e : s[k] = "\n"
             THEN CHOOSE k \in (i + 1)..e :
                     s[k] = "\n" /\ \A j \in (k + 1)..e : s[j] # "\n"
             ELSE 0
    ELSE 0

\* re.sub(r'\n\s*\n+', '\n\n', s)
RECURSIVE SubBlankFrom(_, _)
SubBlankFrom(s, i) ==
    IF i > Len(s) THEN <<>>
    ELSE IF BlankEnd(s, i) # 0
         THEN <<"\n", "\n">> \o SubBlankFrom(s, BlankEnd(s, i) + 1)
         ELSE <<s[i]>> \o SubBlankFrom(s, i + 1)

SubBlank(s) == SubBlankFrom(s, 1)

\* re.sub(r'\s+', ' ', s)
RECURSIVE SubSpaceFrom(_, _)
SubSpaceFrom(s, i) ==
    IF i > Len(s) THEN <<>>
    ELSE IF s[i] \in Whitespace THEN <<" ">> \o SubSpaceFrom(s, SkipSpace(s, i))
         ELSE <<s[i]>> \o SubSpaceFrom(s, i + 1)

SubSpace(s) == SubSpaceFrom(s, 1)

\* str.strip()
Strip(s) ==
    IF \A i \in DOMAIN s : s[i] \in Whitespace THEN <<>>
    ELSE LET a == SkipSpace(s, 1)
             b == CHOOSE j \in DOMAIN s :
                     s[j] \notin Whitespace /\ \A k \in (j + 1)..Len(s) : s[k] \in Whitespace
         IN  SubSeq(s, a, b)

\* Mutant: the character references are replaced after the tags are removed.
html_to_text_unescape_last(content) ==
    Unescape(Strip(SubBlank(SubTags(SubP(SubBr(content)), <<>>))))

\* Lines 281-286 and 444-448: HTML to readable text, line breaks kept.
html_to_text(content) == Strip(SubBlank(SubTags(SubP(SubBr(Unescape(content))), <<>>)))

\* Lines 453-455: HTML to plain text.
html_to_plain(content) == Strip(SubSpace(SubTags(Unescape(content), <<" ">>)))

\* Lines 254-255: the excerpt of a search result, cleaned.
clean_excerpt(page) == Strip(SubSpace(Unescape(DictGet(page, "excerpt", <<>>))))

(***************************************************************************)
(* What an invocation produces.  The returned string is the sequence of    *)
(* the pieces it is built from ("\n".join(output_lines)); `trace` lists,   *)
(* in order, the events handed to __event_emitter__ and the GET requests   *)
(* handed to the client.                                                   *)
(***************************************************************************)
\* Python's None, where the other values are atomic strings; f"{None}" is "None".
None == "None"

Line(kind) ==
    [kind |-> kind, idx |-> 0, title |-> "", page_id |-> 0, url |-> "",
     text |-> <<>>, status_code |-> 0, error |-> "", item_type |-> ""]

Event(type) ==
    [type |-> type, description |-> "", done |-> FALSE, count |-> 0,
     document |-> <<>>, doc_title |-> "", source |-> "", url |-> "",
     ctype |-> "", page_id |-> 0, endpoint |-> "", query |-> <<>>]

Status(description, done) ==
    [Event("status") EXCEPT !.description = description, !.done = done]

\* The search citations carry "document": [content] or [excerpt or title]:
\* `document` is the text, `doc_title` the title that stands in for it.
Citation(document, doc_title, title, url, ctype, page_id) ==
    [Event("citation") EXCEPT !.document = document, !.doc_title = doc_title,
                              !.source = title, !.url = url, !.ctype = ctype,
                              !.page_id = page_id]

HttpSearch(query) == [Event("http") EXCEPT !.endpoint = "/search", !.query = query]

HttpPage(page_id) == [Event("http") EXCEPT !.endpoint = "/pages", !.page_id = page_id]

Idle ==
    [op |-> "none", pc |-> "idle", query |-> <<>>, max_pages |-> 0,
     emitter |-> FALSE, page_id |-> 0, format |-> "",
     optimized_query |-> <<>>, res |-> <<>>, pages |-> <<>>, idx |-> 0,
     output_lines |-> <<>>, success_count |-> 0, permission_error |-> FALSE,
     result |-> <<>>, error |-> "", trace |-> <<>>]

\* if __event_emitter__: await __event_emitter__(ev)
Emit(i, ev) == IF i.emitter THEN [i EXCEPT !.trace = Append(@, ev)] ELSE i

Request(i, req) == [i EXCEPT !.trace = Append(@, req)]

Return(i, result) == [i EXCEPT !.pc = "returned", !.result = result]

Raise(i, exc) == [i EXCEPT !.pc = "raised", !.error = exc]

(***************************************************************************)
(* Tools._client: the configuration check.                                 *)
(***************************************************************************)
\* Mutant: only the URL is checked.
config_ok_url_only(v) == v.BOOKSTACK_URL # ""

config_ok(v) ==
    /\ v.BOOKSTACK_URL # ""
    /\ ~(v.BOOKSTACK_TOKEN_ID = "" \/ v.BOOKSTACK_TOKEN_SECRET = "")

(***************************************************************************)
(* Tools.search                                                            *)
(***************************************************************************)
\* Line 182: [:5]
ResultCap == 5

\* The answer of the server to GET /api/pages/{page_id}.
PageReply(page_id) ==
    IF page_id \in DOMAIN server.pages
    THEN server.pages[page_id]
    ELSE Response(404, ReasonPhrase(404), NotJson)

\* Lines 168-178: optimize the query, announce the search.
search_begin(i) ==
    LET optimized_query == _optimize_query(i.query)
        search_msg == IF optimized_query # i.query
                      THEN "Zoeken naar" ELSE "Zoeken in BookStack..."
    IN  Emit([i EXCEPT !.optimized_query = optimized_query, !.pc = "search_client"],
             Status(search_msg, FALSE))

\* Line 181: c = self._client()
search_client(i) ==
    IF config_ok(valves) THEN [i EXCEPT !.pc = "search_request"]
    ELSE Raise(i, "ValueError: configuration")

\* Mutant: the message never names the optimized query.
no_results_msg_plain(i) == <<[Line("no_results") EXCEPT !.text = i.query]>>

\* Lines 193-198
no_results_msg(i) ==
    <<[Line("no_results") EXCEPT !.text = i.query]>>
        \o (IF i.optimized_query # i.query
            THEN <<[Line("searched_on") EXCEPT !.text = i.optimized_query], Line("tip")>>
            ELSE <<>>)

\* Lines 206-212: the two lines of result number k.
listing_item(res, k) ==
    <<[Line("item") EXCEPT !.idx = k,
                           !.title = DictGet(res[k], "name", "Geen titel"),
                           !.item_type = DictGet(res[k], "type", "unknown"),
                           !.page_id = DictGet(res[k], "id", 0)],
      [Line("link") EXCEPT !.url = DictGet(res[k], "url", "")]>>

\* Lines 205-212
listing(res) ==
    <<Line("no_pages_header")>> \o Flatten([k \in DOMAIN res |-> listing_item(res, k)])

IsPage(r) == DictGet(r, "type", None) = "page"

RECURSIVE OnlyPages(_)
OnlyPages(res) ==
    IF res = <<>> THEN <<>>
    ELSE (IF IsPage(Head(res)) THEN <<Head(res)>> ELSE <<>>) \o OnlyPages(Tail(res))

\* Mutant: every result counts as a page.
select_pages_any_type(res, max_pages) == SliceTo(res, max_pages)

\* Line 201: [r for r in res if r.get("type") == "page"][:max_pages]
select_pages(res, max_pages) == SliceTo(OnlyPages(res), max_pages)

\* Line 226: p.get("name", "?")[:30] for p in pages[:2] fails on a name that
\* is None; it is evaluated only when there is an emitter.
page_titles_fail(pages) ==
    \E k \in 1..Min(2, Len(pages)) : DictGet(pages[k], "name", "?") = None

\* Lines 240-244
found_header(i, pages) ==
    <<[Line("found") EXCEPT !.idx = Len(pages), !.text = i.query]>>
        \o (IF i.optimized_query # i.query
            THEN <<[Line("searched_on") EXCEPT !.text = i.optimized_query]>>
            ELSE <<>>)

\* Lines 184-248, on the capped result list.
search_results(i, res) ==
    IF res = <<>>
    THEN Return(Emit([i EXCEPT !.res = res], Status("Geen resultaten gevonden", TRUE)),
                no_results_msg(i))
    ELSE LET pages == select_pages(res, i.max_pages)
             j == [i EXCEPT !.res = res, !.pages = pages]
         IN  IF pages = <<>>
             THEN Return(Emit(j, Status("Alleen books/chapters gevonden", TRUE)),
                         listing(res))
             ELSE IF i.emitter /\ page_titles_fail(pages)
             THEN Raise(j, "TypeError")
             ELSE Emit([j EXCEPT !.output_lines = found_header(i, pages),
                                 !.success_count = 0,
                                 !.permission_error = FALSE,
                                 !.idx = 1,
                                 !.pc = "search_page"],
                       Status("Gevonden", FALSE))

\* Lines 182-248: the search request and what follows up to the page loop.
search_request(i) ==
    LET j == Request(i, HttpSearch(i.optimized_query))
        out == get(server.search)
    IN  IF out.ret = "raise" THEN Raise(j, out.exc)
        ELSE IF out.data.t # "object" THEN Raise(j, "AttributeError")
        ELSE LET data == DictGet(out.data.v, "data", JList(<<>>))
             IN  IF data.t # "list" THEN Raise(j, "TypeError")
                 ELSE search_results(j, SliceTo(data.v, ResultCap))

(***************************************************************************)
(* Tools.search: one turn of the loop over the pages (lines 250-381).      *)
(***************************************************************************)
\* Lines 274-286
page_content(meta) ==
    LET markdown == DictGet(meta, "markdown", <<>>)
        html == DictGet(meta, "html", <<>>)
    IN  IF markdown # <<>> THEN markdown
        ELSE IF html # <<>> THEN html_to_text(html)
        ELSE html

\* meta.get("url") or url
UrlOr(meta, url) ==
    IF DictGet(meta, "url", "") # "" THEN meta["url"] ELSE url

Heading(idx, page) ==
    [Line("heading") EXCEPT !.idx = idx,
                            !.title = DictGet(page, "name", "Geen titel"),
                            !.page_id = DictGet(page, "id", 0)]

Link(url) == [Line("link") EXCEPT !.url = url]

Debug(page, out) ==
    [Line("debug") EXCEPT !.page_id = DictGet(page, "id", 0),
                          !.status_code = out.status_code, !.error = out.error]

\* if excerpt: output_lines.append(Samenvatting)
Summary(page) ==
    IF clean_excerpt(page) # <<>>
    THEN <<[Line("summary") EXCEPT !.text = clean_excerpt(page)]>>
    ELSE <<>>

AddLines(i, lines) == [i EXCEPT !.output_lines = @ \o lines]

\* Mutant: a retrieved page is not counted.
page_success_uncounted(i, idx, page, meta, content) ==
    LET full_url == UrlOr(meta, DictGet(page, "url", ""))
        title == DictGet(page, "name", "Geen titel")
        j == AddLines(i, <<Heading(idx, page), Link(full_url),
                           [Line("content") EXCEPT !.text = content]>>)
    IN  Emit(j, Citation(content, "", title, full_url, "bookstack_page",
                         DictGet(page, "id", 0)))

\* Lines 295-321
page_success(i, idx, page, meta, content) ==
    LET full_url == UrlOr(meta, DictGet(page, "url", ""))
        title == DictGet(page, "name", "Geen titel")
        j == AddLines(i, <<Heading(idx, page), Link(full_url),
                           [Line("content") EXCEPT !.text = content]>>)
        k == Emit(j, Citation(content, "", title, full_url, "bookstack_page",
                              DictGet(page, "id", 0)))
    IN  [k EXCEPT !.success_count = @ + 1]

\* Lines 327-357
page_forbidden(i, idx, page, out) ==
    LET url == DictGet(page, "url", "")
        title == DictGet(page, "name", "Geen titel")
        excerpt == clean_excerpt(page)
        j == AddLines([i EXCEPT !.permission_error = TRUE],
                      <<Heading(idx, page), Link(url), Line("no_access"),
                        Debug(page, out)>> \o Summary(page))
    IN  Emit(j, Citation(excerpt, IF excerpt # <<>> THEN "" ELSE title, title, url,
                         "bookstack_page_excerpt", DictGet(page, "id", 0)))

\* Lines 358-365
page_not_found(i, idx, page, out) ==
    AddLines(i, <<Heading(idx, page), Link(DictGet(page, "url", "")),
                  Line("not_found"), Debug(page, out), Line("id_hint")>>
                    \o Summary(page))

\* Lines 366-372
page_api_error(i, idx, page, out) ==
    AddLines(i, <<Heading(idx, page), Link(DictGet(page, "url", "")),
                  Line("api_error"), Debug(page, out)>> \o Summary(page))

\* Lines 374-381
page_unexpected(i, idx, page, exc) ==
    AddLines(i, <<Heading(idx, page), Link(DictGet(page, "url", "")),
                  [Line("unexpected") EXCEPT !.error = exc], Line("details")>>
                    \o Summary(page))

\* Lines 323-372: except BookStackClientRequestFailedError
page_typed_error(i, idx, page, out) ==
    IF out.status_code = 403 THEN page_forbidden(i, idx, page, out)
    ELSE IF out.status_code = 404 THEN page_not_found(i, idx, page, out)
    ELSE page_api_error(i, idx, page, out)

\* Mutant: an error that is not the client's typed error leaves the loop.
page_outcome_propagates(i, idx, page, out) ==
    IF out.ret = "raise" /\ out.exc = TypedError THEN page_typed_error(i, idx, page, out)
    ELSE IF out.ret = "raise" THEN Raise(i, out.exc)
    ELSE IF out.data.t # "object" THEN Raise(i, "AttributeError")
    ELSE IF page_content(out.data.v) = <<>> THEN Raise(i, "ValueError")
    ELSE page_success(i, idx, page, out.data.v, page_content(out.data.v))

\* Mutant: a page without content is reported as retrieved.
page_outcome_empty_is_success(i, idx, page, out) ==
    IF out.ret = "raise" /\ out.exc = TypedError THEN page_typed_error(i, idx, page, out)
    ELSE IF out.ret = "raise" THEN page_unexpected(i, idx, page, out.exc)
    ELSE IF out.data.t # "object" THEN page_unexpected(i, idx, page, "AttributeError")
    ELSE page_success(i, idx, page, out.data.v, page_content(out.data.v))

\* Lines 271-381: what the turn does with the outcome of c.get.
page_outcome(i, idx, page, out) ==
    IF out.ret = "raise" /\ out.exc = TypedError THEN page_typed_error(i, idx, page, out)
    ELSE IF out.ret = "raise" THEN page_unexpected(i, idx, page, out.exc)
    ELSE IF out.data.t # "object" THEN page_unexpected(i, idx, page, "AttributeError")
    ELSE IF page_content(out.data.v) = <<>> THEN page_unexpected(i, idx, page, "ValueError")
    ELSE page_success(i, idx, page, out.data.v, page_content(out.data.v))

\* Mutant: the page is requested before its status is emitted.
search_page_request_first(i) ==
    LET page == i.pages[i.idx]
        page_id == DictGet(page, "id", 0)
        j == Request(i, HttpPage(page_id))
        k == Emit(j, [Status("Ophalen", FALSE) EXCEPT
                         !.source = DictGet(page, "name", "Geen titel")])
        l == page_outcome(k, i.idx, page, get(PageReply(page_id)))
    IN  IF l.pc = "raised" THEN l
        ELSE [l EXCEPT !.idx = @ + 1,
                       !.pc = IF i.idx = Len(i.pages) THEN "search_finish"
                              ELSE "search_page"]

\* Lines 250-381, for page number i.idx.
search_page(i) ==
    LET page == i.pages[i.idx]
        page_id == DictGet(page, "id", 0)
        j == Emit(i, [Status("Ophalen", FALSE) EXCEPT
                         !.source = DictGet(page, "name", "Geen titel")])
        k == Request(j, HttpPage(page_id))
        l == page_outcome(k, i.idx, page, get(PageReply(page_id)))
    IN  IF l.pc = "raised" THEN l
        ELSE [l EXCEPT !.idx = @ + 1,
                       !.pc = IF i.idx = Len(i.pages) THEN "search_finish"
                              ELSE "search_page"]

(***************************************************************************)
(* Tools.search: after the loop (lines 383-407).                           *)
(***************************************************************************)
PermissionLines == 9

PermissionBlock == [k \in 1..PermissionLines |-> [Line("permission") EXCEPT !.idx = k]]

search_finish(i) ==
    LET j == IF i.permission_error THEN AddLines(i, PermissionBlock) ELSE i
        status_msg == IF i.success_count > 0 THEN "opgehaald"
                      ELSE "Zoeken voltooid (alleen samenvattingen beschikbaar)"
    IN  Return(Emit(j, [Status(status_msg, TRUE) EXCEPT !.count = i.success_count]),
               j.output_lines)

(***************************************************************************)
(* Tools.get_page                                                          *)
(***************************************************************************)
\* Line 468: content[:500]
PreviewLen == 500

\* Lines 422-429
get_page_begin(i) == Emit([i EXCEPT !.pc = "get_page_client"], Status("Pagina ophalen...", FALSE))

\* Line 431
get_page_client(i) ==
    IF config_ok(valves) THEN [i EXCEPT !.pc = "get_page_fetch"]
    ELSE Raise(i, "ValueError: configuration")

\* Mutant: a body of exactly PreviewLen characters is marked as cut.
preview_at_limit(content) ==
    IF Len(content) >= PreviewLen
    THEN SubSeq(content, 1, PreviewLen) \o <<".", ".", ".">>
    ELSE content

\* Line 468
preview(content) ==
    IF Len(content) > PreviewLen
    THEN SubSeq(content, 1, PreviewLen) \o <<".", ".", ".">>
    ELSE content

\* Mutant: format html is cleaned like the markdown fallback.
format_content_html_cleaned(meta, format) ==
    IF format = "markdown" THEN page_content(meta)
    ELSE IF format = "text"
    THEN (IF DictGet(meta, "html", <<>>) # <<>>
          THEN html_to_plain(meta["html"]) ELSE <<>>)
    ELSE IF DictGet(meta, "html", <<>>) # <<>> THEN html_to_text(meta["html"]) ELSE <<>>

\* Lines 437-457, for a format that is one of the three.
format_content(meta, format) ==
    IF format = "markdown" THEN page_content(meta)
    ELSE IF format = "text"
    THEN (IF DictGet(meta, "html", <<>>) # <<>>
          THEN html_to_plain(meta["html"]) ELSE <<>>)
    ELSE DictGet(meta, "html", <<>>)

\* Lines 461-498
get_page_output(i, meta, content) ==
    LET title == DictGet(meta, "name", "Onbekende pagina")
        url == DictGet(meta, "url", "")
        j == Emit(i, Citation(preview(content), "", title, url, "bookstack_page",
                              i.page_id))
        k == Emit(j, Status("Pagina geladen!", TRUE))
    IN  Return(k, <<[Line("title") EXCEPT !.title = title], Link(url),
                    Line("separator"), [Line("content") EXCEPT !.text = content]>>)

\* Lines 432-498
get_page_fetch(i) ==
    LET j == Request(i, HttpPage(i.page_id))
        out == get(PageReply(i.page_id))
    IN  IF out.ret = "raise" THEN Raise(j, out.exc)
        ELSE IF out.data.t # "object" THEN Raise(j, "AttributeError")
        ELSE IF i.format \notin {"markdown", "text", "html"}
        THEN Raise(j, "ValueError: format")
        ELSE get_page_output(j, out.data.v, format_content(out.data.v, i.format))

(***************************************************************************)
(* One invocation, step by step.                                           *)
(***************************************************************************)
Finished(i) == i.pc \in {"returned", "raised"}

Step(i) ==
    CASE i.pc = "search_begin" -> search_begin(i)
      [] i.pc = "search_client" -> search_client(i)
      [] i.pc = "search_request" -> search_request(i)
      [] i.pc = "search_page" -> search_page(i)
      [] i.pc = "search_finish" -> search_finish(i)
      [] i.pc = "get_page_begin" -> get_page_begin(i)
      [] i.pc = "get_page_client" -> get_page_client(i)
      [] i.pc = "get_page_fetch" -> get_page_fetch(i)
      [] OTHER -> i

\* The invocation run to its end.
RECURSIVE RunToEnd(_)
RunToEnd(i) == IF Finished(i) \/ i.pc = "idle" THEN i ELSE RunToEnd(Step(i))

StartSearch(query, max_pages, emitter) ==
    [Idle EXCEPT !.op = "search", !.pc = "search_begin", !.query = query,
                 !.max_pages = max_pages, !.emitter = emitter]

StartGetPage(page_id, format, emitter) ==
    [Idle EXCEPT !.op = "get_page", !.pc = "get_page_begin", !.page_id = page_id,
                 !.format = format, !.emitter = emitter]

(***************************************************************************)
(* The optimizer on its own: a query is optimized, and the result is       *)
(* optimized again.                                                        *)
(***************************************************************************)
MaxQueryLen == 7

OptChars == {"T", "h", "e", " "}

\* "welke pagina is dit"
ExampleQuery ==
    <<"w","e","l","k","e"," ","p","a","g","i","n","a"," ","i","s"," ","d","i","t">>

ExtraQueries ==
    { ExampleQuery,
      <<"H","o","e","\t","k","a","n"," "," ","I","K","\n","z","o","e","k","e","n">>,
      <<" ","i","s"," ","\t">> }

OptQueries == SeqsUpTo(OptChars, MaxQueryLen) \cup ExtraQueries

OptOff == [pc |-> "off", query |-> <<>>, once |-> <<>>, twice |-> <<>>]

OptimizeOnce ==
    /\ opt.pc = "start"
    /\ opt' = [opt EXCEPT !.pc = "once", !.once = _optimize_query(opt.query)]
    /\ UNCHANGED <<valves, server, inv, cli, san>>

OptimizeAgain ==
    /\ opt.pc = "once"
    /\ opt' = [opt EXCEPT !.pc = "twice", !.twice = _optimize_query(opt.once)]
    /\ UNCHANGED <<valves, server, inv, cli, san>>

(***************************************************************************)
(* The client on its own: one GET against one answer of the server.        *)
(***************************************************************************)
Statuses == {200, 204, 304, 400, 401, 403, 404, 429, 500, 503}

ErrorBodies ==
    { NotJson,
      JNull,
      JList(<<>>),
      JString("Forbidden"),
      JObject(EmptyMap),
      JObject([message |-> JString("top-level message")]),
      JObject([error |-> JObject([message |-> JString("server message")])]),
      JObject([error |-> JObject([message |-> JString("")])]),
      JObject([error |-> JObject([message |-> JNull])]),
      JObject([error |-> JObject([code |-> JString("E1")])]),
      JObject([error |-> JString("plain error")]),
      JObject([error |-> JNull]),
      JObject([error |-> JList(<<>>)]) }

ClientReplies ==
    {Response(s, ReasonPhrase(s), b) : s \in Statuses, b \in ErrorBodies}
        \cup {NoResponse("ConnectionError")}

CliOff == [pc |-> "off", reply |-> NoResponse(""), out |-> Raises("")]

ClientGet ==
    /\ cli.pc = "start"
    /\ cli' = [cli EXCEPT !.pc = "done", !.out = get(cli.reply)]
    /\ UNCHANGED <<valves, server, inv, opt, san>>

(***************************************************************************)
(* The clean-up of HTML on its own: one text, cleaned in one of the two    *)
(* ways.                                                                   *)
(***************************************************************************)
SanOff == [pc |-> "off", input |-> <<>>, out |-> <<>>]

\* Lines 281-286 and 444-448
SanitizeText ==
    /\ san.pc = "start"
    /\ san' = [san EXCEPT !.pc = "text", !.out = html_to_text(san.input)]
    /\ UNCHANGED <<valves, server, inv, opt, cli>>

\* Lines 452-455
SanitizePlain ==
    /\ san.pc = "start"
    /\ san' = [san EXCEPT !.pc = "plain", !.out = html_to_plain(san.input)]
    /\ UNCHANGED <<valves, server, inv, opt, cli>>

(***************************************************************************)
(* The configurations and the servers the tool is run against.             *)
(***************************************************************************)
GoodValves ==
    [BOOKSTACK_URL |-> "https://docs.example", BOOKSTACK_TOKEN_ID |-> "id",
     BOOKSTACK_TOKEN_SECRET |-> "secret"]

\* Tools.Valves: every field defaults to "".
BadValves ==
    { [GoodValves EXCEPT !.BOOKSTACK_URL = ""],
      [GoodValves EXCEPT !.BOOKSTACK_TOKEN_ID = ""],
      [GoodValves EXCEPT !.BOOKSTACK_TOKEN_SECRET = ""],
      [BOOKSTACK_URL |-> "", BOOKSTACK_TOKEN_ID |-> "", BOOKSTACK_TOKEN_SECRET |-> ""] }

MaxResults == 6

MaxOutcomePages == 2

\* "Install the <b>tool</b>"
PlainExcerpt == <<"I","n","s","t","a","l","l">>

\* "  a &lt;b&gt;\n\tc " as the server sends it
MessyExcerpt == <<" "," ","a"," ","&lt;","b","&gt;","\n","\t","c"," ">>

Markdown == <<"#"," ","T","\n","b","o","d","y">>

\* "<p>Hello</p><br>World"
ExampleHtml ==
    <<"<","p",">","H","e","l","l","o","<","/","p",">","<","b","r",">",
      "W","o","r","l","d">>

HtmlSamples ==
    { ExampleHtml,
      <<"&lt;","b","&gt;","x","&amp;","y">>,
      <<" ","a"," "," ","b","\n","\n","\n","c","\n">>,
      <<"<","d","i","v",">","\n","<","b","r","/",">","t","<","/","d","i","v",">">>,
      <<"<","p",">">> }

Entry(id, type) ==
    [type |-> type, id |-> id, name |-> "Title", url |-> "result-url",
     excerpt |-> PlainExcerpt]

\* A search result of type page, with a field missing or unusual.
Flavours == {"no_excerpt", "messy_excerpt", "null_name", "no_name"}

FlavouredEntry(id, flavour) ==
    CASE flavour = "no_excerpt" ->
            [type |-> "page", id |-> id, name |-> "Title", url |-> "result-url"]
      [] flavour = "messy_excerpt" ->
            [Entry(id, "page") EXCEPT !.excerpt = MessyExcerpt]
      [] flavour = "null_name" ->
            [Entry(id, "page") EXCEPT !.name = None]
      [] flavour = "no_name" ->
            [type |-> "page", id |-> id, url |-> "result-url", excerpt |-> PlainExcerpt]

Ok(body) == Response(200, ReasonPhrase(200), body)

PageMeta(markdown, html) ==
    JObject([id |-> 1, name |-> "Page name", url |-> "page-url",
             markdown |-> markdown, html |-> html])

Forbidden ==
    Response(403, ReasonPhrase(403),
             JObject([error |-> JObject([message |-> JString("No permission")])]))

\* What the server may answer for one page.
CoreOutcomes ==
    { Ok(PageMeta(Markdown, <<>>)),
      Ok(JObject([name |-> "Page name", markdown |-> <<>>, html |-> ExampleHtml])),
      Ok(PageMeta(<<>>, <<>>)),
      Ok(JList(<<>>)),
      Forbidden,
      Response(404, ReasonPhrase(404), NotJson),
      Response(400, ReasonPhrase(400), JObject(EmptyMap)),
      NoResponse("ConnectionError") }

Outcomes ==
    CoreOutcomes \cup
    { Ok(PageMeta(<<>>, <<"<","p",">">>)),
      Ok(NotJson),
      Response(401, ReasonPhrase(401), JObject([error |-> JString("Unauthorized")])),
      Response(403, ReasonPhrase(403), JObject([error |-> JString("Forbidden")])),
      Response(500, ReasonPhrase(500), NotJson) }

SearchOk(res) == Ok(JObject([data |-> JList(res), total |-> Len(res)]))

\* Results of both kinds, every page readable.
ShapeServers ==
    { [search |-> SearchOk([k \in DOMAIN types |-> Entry(k, types[k])]),
       pages |-> [k \in DOMAIN types |-> Ok(PageMeta(Markdown, <<>>))]] :
         types \in SeqsUpTo({"page", "book"}, MaxResults) }
    \cup
    { [search |-> SearchOk(<<Entry(1, "chapter"), Entry(2, "book")>>),
       pages |-> <<>>] }

\* Pages only, each with an outcome of its own.
OutcomeServers ==
    { [search |-> SearchOk([k \in DOMAIN outcomes |-> Entry(k, "page")]),
       pages |-> outcomes] :
         outcomes \in SeqsUpTo(Outcomes, MaxOutcomePages) \ {<<>>} }

\* One page, every outcome, every flavour of search result.
FlavourServers ==
    { [search |-> SearchOk(<<e>>), pages |-> <<o>>] :
         e \in {FlavouredEntry(1, f) : f \in Flavours} \cup {Entry(1, "page")},
         o \in Outcomes }

\* One page, bodies of several kinds.
ContentServers ==
    { [search |-> SearchOk(<<Entry(1, "page")>>), pages |-> <<Ok(meta)>>] :
         meta \in {PageMeta(m, h) : m \in {<<>>, Markdown}, h \in HtmlSamples}
                  \cup {JObject([name |-> "Page name", url |-> "page-url"]),
                        JObject([html |-> ExampleHtml])} }

\* One page, with a markdown body of exactly PreviewLen characters, or one
\* more.
LongBodies == { [k \in 1..PreviewLen |-> "x"], [k \in 1..(PreviewLen + 1) |-> "x"] }

LongServers ==
    { [search |-> SearchOk(<<Entry(1, "page")>>), pages |-> <<Ok(PageMeta(b, <<>>))>>] :
         b \in LongBodies }

\* The search request itself goes wrong, or finds nothing.
SearchReplies ==
    { Ok(NotJson),
      Ok(JObject(EmptyMap)),
      Ok(JList(<<>>)),
      Ok(JObject([data |-> JNull])),
      SearchOk(<<>>),
      Forbidden,
      Response(401, ReasonPhrase(401), JObject([error |-> JString("Unauthorized")])),
      Response(503, ReasonPhrase(503), NotJson),
      NoResponse("ConnectionError") }

SearchFailureServers ==
    { [search |-> r, pages |-> <<Ok(PageMeta(Markdown, <<>>))>>] : r \in SearchReplies }

Servers ==
    ShapeServers \cup OutcomeServers \cup FlavourServers \cup ContentServers
        \cup LongServers \cup SearchFailureServers

DefaultServer ==
    [search |-> SearchOk(<<Entry(1, "page")>>),
     pages |-> <<Ok(PageMeta(Markdown, <<>>))>>]

(***************************************************************************)
(* The arguments of the calls.                                             *)
(***************************************************************************)
\* "The hhh" (optimized to "hhh") and "hhh" (left as it is)
Queries == { <<"T","h","e"," ","h","h","h">>, <<"h","h","h">> }

MaxPagesArgs == (-2)..(ResultCap + 1)

Formats == {"markdown", "text", "html", "pdf"}

PageIds == DOMAIN server.pages \cup {0}

(***************************************************************************)
(* The tool: one invocation of search or get_page against a server.        *)
(***************************************************************************)
Init ==
    /\ \/ valves = GoodValves /\ server \in Servers
       \/ valves \in BadValves /\ server = DefaultServer
    /\ inv = Idle
    /\ opt = OptOff
    /\ cli = CliOff
    /\ san = SanOff

search(query, max_pages, emitter) ==
    /\ inv.pc = "idle"
    /\ inv' = StartSearch(query, max_pages, emitter)
    /\ UNCHANGED <<valves, server, opt, cli, san>>

get_page(page_id, format, emitter) ==
    /\ inv.pc = "idle"
    /\ inv' = StartGetPage(page_id, format, emitter)
    /\ UNCHANGED <<valves, server, opt, cli, san>>

SearchBegin ==
    /\ inv.pc = "search_begin"
    /\ inv' = search_begin(inv)
    /\ UNCHANGED <<valves, server, opt, cli, san>>

SearchClient ==
    /\ inv.pc = "search_client"
    /\ inv' = search_client(inv)
    /\ UNCHANGED <<valves, server, opt, cli, san>>

SearchRequest ==
    /\ inv.pc = "search_request"
    /\ inv' = search_request(inv)
    /\ UNCHANGED <<valves, server, opt, cli, san>>

SearchPage ==
    /\ inv.pc = "search_page"
    /\ inv' = search_page(inv)
    /\ UNCHANGED <<valves, server, opt, cli, san>>

SearchFinish ==
    /\ inv.pc = "search_finish"
    /\ inv' = search_finish(inv)
    /\ UNCHANGED <<valves, server, opt, cli, san>>

GetPageBegin ==
    /\ inv.pc = "get_page_begin"
    /\ inv' = get_page_begin(inv)
    /\ UNCHANGED <<valves, server, opt, cli, san>>

GetPageClient ==
    /\ inv.pc = "get_page_client"
    /\ inv' = get_page_client(inv)
    /\ UNCHANGED <<valves, server, opt, cli, san>>

GetPageFetch ==
    /\ inv.pc = "get_page_fetch"
    /\ inv' = get_page_fetch(inv)
    /\ UNCHANGED <<valves, server, opt, cli, san>>

Next ==
    \/ \E query \in Queries, max_pages \in MaxPagesArgs, emitter \in BOOLEAN :
          search(query, max_pages, emitter)
    \/ \E page_id \in PageIds, format \in Formats, emitter \in BOOLEAN :
          get_page(page_id, format, emitter)
    \/ SearchBegin
    \/ SearchClient
    \/ SearchRequest
    \/ SearchPage
    \/ SearchFinish
    \/ GetPageBegin
    \/ GetPageClient
    \/ GetPageFetch

Spec == Init /\ [][Next]_vars

(***************************************************************************)
(* The optimizer alone, on every query of the bounded set.                 *)
(***************************************************************************)
InitOptimize ==
    /\ valves = GoodValves
    /\ server = DefaultServer
    /\ inv = Idle
    /\ cli = CliOff
    /\ san = SanOff
    /\ \E query \in OptQueries : opt = [OptOff EXCEPT !.pc = "start", !.query = query]

NextOptimize == OptimizeOnce \/ OptimizeAgain

SpecOptimize == InitOptimize /\ [][NextOptimize]_vars

(***************************************************************************)
(* The client alone, on every answer of the bounded set.                   *)
(***************************************************************************)
InitClient ==
    /\ valves = GoodValves
    /\ server = DefaultServer
    /\ inv = Idle
    /\ opt = OptOff
    /\ san = SanOff
    /\ \E reply \in ClientReplies : cli = [CliOff EXCEPT !.pc = "start", !.reply = reply]

NextClient == ClientGet

SpecClient == InitClient /\ [][NextClient]_vars

(***************************************************************************)
(* The clean-up alone, on every text of the bounded set.                   *)
(***************************************************************************)
MaxHtmlLen == 4

HtmlChars == {"<", ">", "/", "p", "b", "r", " ", "\n", "&lt;", "&gt;"}

SanInputs == SeqsUpTo(HtmlChars, MaxHtmlLen) \cup HtmlSamples

InitSanitize ==
    /\ valves = GoodValves
    /\ server = DefaultServer
    /\ inv = Idle
    /\ opt = OptOff
    /\ cli = CliOff
    /\ \E input \in SanInputs : san = [SanOff EXCEPT !.pc = "start", !.input = input]

NextSanitize == SanitizeText \/ SanitizePlain

SpecSanitize == InitSanitize /\ [][NextSanitize]_vars

(***************************************************************************)
(* Reading an invocation: its events, its requests, its sections.          *)
(***************************************************************************)
IsHttp(e) == e.type = "http"

IsEvent(e) == e.type # "http"

IsPageRequest(e) == e.type = "http" /\ e.endpoint = "/pages"

IsCitation(e) == e.type = "citation"

IsDone(e) == e.type = "status" /\ e.done

IsHeading(l) == l.kind = "heading"

IsItem(l) == l.kind = "item"

Requests(i) == SelectSeq(i.trace, IsHttp)

Events(i) == SelectSeq(i.trace, IsEvent)

PageRequests(i) == SelectSeq(i.trace, IsPageRequest)

Citations(i) == SelectSeq(i.trace, IsCitation)

DoneEvents(i) == SelectSeq(i.trace, IsDone)

Headings(lines) == SelectSeq(lines, IsHeading)

HasKind(lines, kind) == \E k \in DOMAIN lines : lines[k].kind = kind

\* The last lines of the text are the permission block.
EndsWithPermissionBlock(lines) ==
    /\ Len(lines) >= PermissionLines
    /\ SubSeq(lines, Len(lines) - PermissionLines + 1, Len(lines)) = PermissionBlock

\* The server answers the search with a list of results (possibly empty).
SearchAnswered ==
    /\ config_ok(valves)
    /\ server.search.kind = "response"
    /\ server.search.status_code = 200
    /\ \/ server.search.body.t = "invalid"
       \/ /\ server.search.body.t = "object"
          /\ DictGet(server.search.body.v, "data", JList(<<>>)).t = "list"

\* The results the server sends, all of them.
SearchEntries ==
    IF server.search.body.t = "invalid" THEN <<>>
    ELSE DictGet(server.search.body.v, "data", JList(<<>>)).v

\* C1: in search, no failure while processing a page (403, 404, another
\* non-2xx status, an empty body, an untyped exception of the fetch) aborts
\* the invocation: once the loop over the pages has begun, search does not
\* raise; when it returns, a page fetch has been made for every surviving
\* page, in result order, and the text has one section per page, in that order.
PageFailureNeverAborts ==
    /\ (inv.op = "search" /\ inv.idx >= 1) => inv.pc # "raised"
    /\ (inv.op = "search" /\ inv.idx >= 1) =>
          /\ Len(PageRequests(inv)) = inv.idx - 1
          /\ Len(Headings(inv.output_lines)) = inv.idx - 1
    /\ (inv.op = "search" /\ inv.pc = "returned" /\ inv.pages # <<>>) =>
          /\ Len(PageRequests(inv)) = Len(inv.pages)
          /\ \A k \in DOMAIN inv.pages :
                PageRequests(inv)[k].page_id = inv.pages[k].id
          /\ Len(Headings(inv.result)) = Len(inv.pages)
          /\ \A k \in DOMAIN inv.pages :
                /\ Headings(inv.result)[k].idx = k
                /\ Headings(inv.result)[k].page_id = inv.pages[k].id

\* C1 witness: two pages, the fetch of the first fails without a response,
\* the second is retrieved, and search has returned.
PageFailureNeverAbortsWitness ==
    /\ inv.op = "search" /\ inv.pc = "returned"
    /\ Len(inv.pages) = 2
    /\ PageReply(inv.pages[1].id).kind = "exception"
    /\ inv.success_count = 1

\* C2, as claimed: with one page whose fetch returns 403, whatever the body
\* of that response, the text has the permission block, no page counts as
\* retrieved, and the citation's document is the excerpt of the search result.
ForbiddenPageCitesExcerpt ==
    (/\ inv.op = "search" /\ inv.pc = "returned"
     /\ Len(inv.pages) = 1
     /\ PageReply(inv.pages[1].id).status_code = 403) =>
        /\ EndsWithPermissionBlock(inv.result)
        /\ inv.success_count = 0
        /\ inv.emitter =>
              /\ Len(Citations(inv)) = 1
              /\ Citations(inv)[1].doc_title = ""
              /\ Citations(inv)[1].document = clean_excerpt(inv.pages[1])

\* C3: when the search endpoint returns zero entries, search returns the
\* no-results message, which names the optimized query when it differs from
\* the original; it makes no page request and emits no citation; with an
\* emitter it emits exactly one status with done=true, as its last event.
NoResultsEndsQuietly ==
    (inv.op = "search" /\ Finished(inv) /\ SearchAnswered /\ SearchEntries = <<>>) =>
        /\ inv.pc = "returned"
        /\ inv.result[1] = [Line("no_results") EXCEPT !.text = inv.query]
        /\ IF _optimize_query(inv.query) # inv.query
           THEN /\ Len(inv.result) = 3
                /\ inv.result[2] =
                      [Line("searched_on") EXCEPT !.text = _optimize_query(inv.query)]
           ELSE Len(inv.result) = 1
        /\ PageRequests(inv) = <<>>
        /\ Citations(inv) = <<>>
        /\ inv.emitter =>
              /\ Len(DoneEvents(inv)) = 1
              /\ IsDone(inv.trace[Len(inv.trace)])
        /\ ~inv.emitter => Events(inv) = <<>>

\* C3 witness: no entries, an emitter, a query that the optimizer changed.
NoResultsWitness ==
    /\ inv.op = "search" /\ inv.pc = "returned" /\ inv.emitter
    /\ SearchAnswered /\ SearchEntries = <<>>
    /\ inv.optimized_query # inv.query

\* The results search looks at: the first ResultCap entries.
Considered == SliceTo(SearchEntries, ResultCap)

\* C4: when the results are books and chapters only, search lists them and
\* returns; it makes no page request; with an emitter its events are the
\* searching status and one status with done=true, and nothing else.
OnlyContainersAreListed ==
    (/\ inv.op = "search" /\ Finished(inv) /\ SearchAnswered
     /\ SearchEntries # <<>>
     /\ \A k \in DOMAIN SearchEntries : SearchEntries[k].type # "page") =>
        /\ inv.pc = "returned"
        /\ inv.result[1] = Line("no_pages_header")
        /\ Len(SelectSeq(inv.result, IsItem)) = Len(Considered)
        /\ \A k \in DOMAIN Considered :
              /\ SelectSeq(inv.result, IsItem)[k].idx = k
              /\ SelectSeq(inv.result, IsItem)[k].page_id = Considered[k].id
              /\ SelectSeq(inv.result, IsItem)[k].item_type = Considered[k].type
        /\ ~HasKind(inv.result, "heading")
        /\ PageRequests(inv) = <<>>
        /\ Len(Requests(inv)) = 1
        /\ inv.emitter =>
              /\ Len(Events(inv)) = 2
              /\ Events(inv)[1].type = "status" /\ ~Events(inv)[1].done
              /\ Events(inv)[1].description \in {"Zoeken naar", "Zoeken in BookStack..."}
              /\ Events(inv)[2].type = "status" /\ Events(inv)[2].done
        /\ ~inv.emitter => Events(inv) = <<>>

\* C4 witness: a chapter and a book, an emitter, and search has returned.
OnlyContainersWitness ==
    /\ inv.op = "search" /\ inv.pc = "returned" /\ inv.emitter
    /\ SearchAnswered
    /\ Len(SearchEntries) = 2
    /\ SearchEntries[1].type = "chapter" /\ SearchEntries[2].type = "book"

AnyValveEmpty ==
    \/ valves.BOOKSTACK_URL = ""
    \/ valves.BOOKSTACK_TOKEN_ID = ""
    \/ valves.BOOKSTACK_TOKEN_SECRET = ""

\* C5: when the base URL, the token id or the token secret is empty, search
\* and get_page fail with the configuration error; no HTTP request is made at
\* any point of the invocation and no string is returned.
MissingConfigFailsBeforeRequest ==
    AnyValveEmpty =>
        /\ Requests(inv) = <<>>
        /\ inv.pc # "returned"
        /\ inv.result = <<>>
        /\ Finished(inv) => (inv.pc = "raised" /\ inv.error = "ValueError: configuration")
        /\ inv.pc \notin {"search_request", "search_page", "search_finish",
                          "get_page_fetch"}

\* C5 witness: get_page has failed with only the token secret missing.
MissingConfigWitness ==
    /\ inv.op = "get_page" /\ inv.pc = "raised"
    /\ valves.BOOKSTACK_URL # "" /\ valves.BOOKSTACK_TOKEN_ID # ""
    /\ valves.BOOKSTACK_TOKEN_SECRET = ""

\* C5 witness for search is the same state with op = "search".
MissingConfigSearchWitness ==
    /\ inv.op = "search" /\ inv.pc = "raised"
    /\ valves.BOOKSTACK_URL # "" /\ valves.BOOKSTACK_TOKEN_SECRET # ""
    /\ valves.BOOKSTACK_TOKEN_ID = ""

\* The message of the JSON error envelope {"error": {"message": ...}}, or "".
EnvelopeMessage(body) ==
    IF /\ body.t = "object"
       /\ "error" \in DOMAIN body.v
       /\ body.v["error"].t = "object"
       /\ "message" \in DOMAIN body.v["error"].v
       /\ body.v["error"].v["message"].t = "string"
    THEN body.v["error"].v["message"].v
    ELSE ""

\* C6, as claimed: for every response with a status that is not 2xx that get
\* receives, whatever its body, get raises the typed error, with the status
\* of the response and with the message of the JSON error envelope when there
\* is one and the reason phrase otherwise.
EveryFailureIsTyped ==
    (/\ cli.pc = "done"
     /\ session_get(cli.reply).kind = "response"
     /\ session_get(cli.reply).status_code >= 300) =>
        /\ cli.out.ret = "raise"
        /\ cli.out.exc = TypedError
        /\ cli.out.status_code = cli.reply.status_code
        /\ cli.out.error = IF EnvelopeMessage(cli.reply.body) # ""
                           THEN EnvelopeMessage(cli.reply.body)
                           ELSE cli.reply.reason

\* The same invocation, with the emitter present where it was absent and
\* absent where it was present.
Twin(i) ==
    IF i.op = "search" THEN StartSearch(i.query, i.max_pages, ~i.emitter)
    ELSE StartGetPage(i.page_id, i.format, ~i.emitter)

\* What the caller and the server see of an invocation.
Outcome(i) ==
    [pc |-> i.pc, result |-> i.result, error |-> i.error, requests |-> Requests(i)]

\* C7, as claimed: with and without an emitter, an invocation returns the
\* same string or fails with the same error, and makes the same requests.
EmitterDoesNotAlterOutcome ==
    Finished(inv) => Outcome(RunToEnd(Twin(inv))) = Outcome(inv)

\* C8: optimizing an optimized query changes nothing, and the optimized form
\* of a query that is not empty is not empty.
OptimizerIdempotentNonEmpty ==
    /\ opt.pc = "twice" => opt.twice = opt.once
    /\ (opt.pc \in {"once", "twice"} /\ opt.query # <<>>) => opt.once # <<>>

\* C8 witness: a query the optimizer changed has been optimized twice.
OptimizerIdempotentWitness ==
    /\ opt.pc = "twice"
    /\ opt.query # <<>>
    /\ opt.once # opt.query

Survives(w) == w \notin stopwoorden /\ Len(w) > 2

RECURSIVE TotalLen(_)
TotalLen(ws) == IF ws = <<>> THEN 0 ELSE Len(Head(ws)) + TotalLen(Tail(ws))

\* "pagina dit"
ExampleOptimized == <<"p","a","g","i","n","a"," ","d","i","t">>

\* C9: the result consists of the tokens of the lower-cased query that are no
\* stopword and longer than 2, in their order, with one space between two
\* neighbours and no other whitespace; when there is no such token the result
\* is the query itself.  "welke pagina is dit" gives "pagina dit".
OptimizerContract ==
    opt.pc \in {"once", "twice"} =>
        LET kept == SelectSeq(Split(Lower(opt.query)), Survives)
        IN  /\ IF kept = <<>> THEN opt.once = opt.query
               ELSE /\ Split(opt.once) = kept
                    /\ Len(opt.once) = TotalLen(kept) + Len(kept) - 1
                    /\ \A k \in DOMAIN opt.once :
                          opt.once[k] \in Whitespace => opt.once[k] = " "
            /\ opt.query = ExampleQuery => opt.once = ExampleOptimized

\* C9 witness: a query with an upper-case letter, a stopword longer than 2,
\* a short token that is no stopword, and a token that stays.
OptimizerContractWitness ==
    /\ opt.pc = "once"
    /\ Lower(opt.query) # opt.query
    /\ LET toks == Split(Lower(opt.query))
       IN  /\ \E k \in DOMAIN toks : toks[k] \in stopwoorden /\ Len(toks[k]) > 2
           /\ \E k \in DOMAIN toks : toks[k] \notin stopwoorden /\ Len(toks[k]) <= 2
           /\ \E k \in DOMAIN toks : Survives(toks[k])

\* The page get_page asks for is answered with a JSON object (or with text
\* that is no JSON, which the client reads as an empty object).
PageAnswered(page_id) ==
    /\ config_ok(valves)
    /\ PageReply(page_id).kind = "response"
    /\ PageReply(page_id).status_code = 200
    /\ PageReply(page_id).body.t \in {"object", "invalid"}

\* C10: for format html, get_page returns the title heading, the link and the
\* separator, followed by the html field exactly as the server sent it, and
\* by nothing when the field is absent.
HtmlFormatIsVerbatim ==
    (/\ inv.op = "get_page" /\ inv.format = "html" /\ Finished(inv)
     /\ PageAnswered(inv.page_id)) =>
        LET meta == PageReply(inv.page_id).body.v
        IN  /\ inv.pc = "returned"
            /\ Len(inv.result) = 4
            /\ inv.result[1] = [Line("title") EXCEPT
                                   !.title = DictGet(meta, "name", "Onbekende pagina")]
            /\ inv.result[2] = [Line("link") EXCEPT !.url = DictGet(meta, "url", "")]
            /\ inv.result[3] = Line("separator")
            /\ inv.result[4].kind = "content"
            /\ inv.result[4].text =
                  IF "html" \in DOMAIN meta THEN meta["html"] ELSE <<>>

\* C10 witness: get_page has returned, for format html, a body with a
\* character reference, a tag and a run of whitespace in it.
HtmlFormatWitness ==
    /\ inv.op = "get_page" /\ inv.format = "html" /\ inv.pc = "returned"
    /\ \E k \in DOMAIN inv.result[4].text : inv.result[4].text[k] = "&lt;"
    /\ html_to_text(inv.result[4].text) # inv.result[4].text

\* C10 witness for the absent field.
HtmlFormatAbsentWitness ==
    /\ inv.op = "get_page" /\ inv.format = "html" /\ inv.pc = "returned"
    /\ PageReply(inv.page_id).body.t = "object"
    /\ "html" \notin DOMAIN PageReply(inv.page_id).body.v

\* C11, as claimed: get_page with a format that is not markdown, text or html
\* fails at once with the error about the format: no page request is made,
\* no citation and no status with done=true is emitted, nothing is returned.
InvalidFormatFailsBeforeRequest ==
    (/\ inv.op = "get_page"
     /\ inv.format \notin {"markdown", "text", "html"}
     /\ config_ok(valves)) =>
        /\ PageRequests(inv) = <<>>
        /\ Citations(inv) = <<>>
        /\ DoneEvents(inv) = <<>>
        /\ inv.pc # "returned"
        /\ inv.result = <<>>
        /\ Finished(inv) => (inv.pc = "raised" /\ inv.error = "ValueError: format")

\* C12, as claimed: a GET whose every attempt is answered with a status of
\* status_forcelist ends, after the retries, with the typed error that
\* carries that status.
ExhaustedRetriesAreTyped ==
    (/\ cli.pc = "done"
     /\ cli.reply.kind = "response"
     /\ cli.reply.status_code \in status_forcelist) =>
        /\ cli.out.ret = "raise"
        /\ cli.out.exc = TypedError
        /\ cli.out.status_code = cli.reply.status_code

\* C13, as claimed: with the URL, the token id or the token secret missing,
\* search and get_page emit no event at all.
MissingConfigEmitsNothing ==
    AnyValveEmpty => Events(inv) = <<>>

\* A tag: "<", one or more characters that are not ">", and ">".
HasTag(s) ==
    \E a, b \in DOMAIN s :
        /\ a + 1 < b
        /\ s[a] = "<"
        /\ s[b] = ">"
        /\ \A k \in (a + 1)..(b - 1) : s[k] # ">"

\* "Hello", newline, "World"
ExampleText == <<"H","e","l","l","o","\n","W","o","r","l","d">>

\* "Hello World"
ExamplePlain == <<"H","e","l","l","o"," ","W","o","r","l","d">>

\* C14: for every text, both ways of cleaning HTML give a result, and the
\* result has no tag in it; the plain-text result has no two whitespace
\* characters in a row; "<p>Hello</p><br>World" gives "Hello\nWorld" the
\* first way and "Hello World" the second.
SanitizerLeavesNoTags ==
    /\ san.pc \in {"text", "plain"} => ~HasTag(san.out)
    /\ san.pc = "plain" =>
          \A k \in 1..(Len(san.out) - 1) :
              ~(san.out[k] \in Whitespace /\ san.out[k + 1] \in Whitespace)
    /\ (san.pc = "text" /\ san.input = ExampleHtml) => san.out = ExampleText
    /\ (san.pc = "plain" /\ san.input = ExampleHtml) => san.out = ExamplePlain

\* C14 witness: a text with a character reference for "<" that, once the
\* references are replaced, has a tag in it, cleaned the first way into
\* something that is not empty.
SanitizerWitness ==
    /\ san.pc = "text"
    /\ \E k \in DOMAIN san.input : san.input[k] = "&lt;"
    /\ HasTag(Unescape(san.input))
    /\ san.out # <<>>

\* C14 witness for the second way: the example.
SanitizerPlainWitness ==
    /\ san.pc = "plain"
    /\ san.input = ExampleHtml
    /\ san.out = ExamplePlain

\* The fetch of the page succeeds and gives a body that is not empty.
Retrieved(page_id) ==
    /\ get(PageReply(page_id)).ret = "return"
    /\ get(PageReply(page_id)).data.t = "object"
    /\ page_content(get(PageReply(page_id)).data.v) # <<>>

\* The fetch of the page fails with the client's error for status 403.
TypedForbidden(page_id) ==
    /\ get(PageReply(page_id)).ret = "raise"
    /\ get(PageReply(page_id)).exc = TypedError
    /\ get(PageReply(page_id)).status_code = 403

IsFullCitation(e) == e.type = "citation" /\ e.ctype = "bookstack_page"

RetrievedPages(i) == {k \in DOMAIN i.pages : Retrieved(i.pages[k].id)}

\* C15: a search that returns, with an emitter, has emitted exactly one
\* status with done=true, as its last event, and every status before it has
\* done=false; when pages were fetched, the number of citations of a full
\* body is the number of pages retrieved with a body that is not empty, and
\* the last status reports that number (when it is zero, the status says
\* that only summaries are available).
SearchEndsWithOneDone ==
    (inv.op = "search" /\ inv.pc = "returned" /\ inv.emitter) =>
        LET ev == Events(inv)
            n == Len(ev)
            retrieved == Cardinality(RetrievedPages(inv))
        IN  /\ n >= 1
            /\ IsDone(ev[n])
            /\ IsDone(inv.trace[Len(inv.trace)])
            /\ Len(DoneEvents(inv)) = 1
            /\ \A k \in 1..(n - 1) : ev[k].type = "status" => ~ev[k].done
            /\ inv.pages # <<>> =>
                  /\ Len(SelectSeq(ev, IsFullCitation)) = retrieved
                  /\ ev[n].count = retrieved
                  /\ ev[n].description =
                        IF retrieved > 0 THEN "opgehaald"
                        ELSE "Zoeken voltooid (alleen samenvattingen beschikbaar)"

\* C15 witness: two pages, one retrieved and one not, an emitter, returned.
SearchEndsWithOneDoneWitness ==
    /\ inv.op = "search" /\ inv.pc = "returned" /\ inv.emitter
    /\ Len(inv.pages) = 2
    /\ Cardinality(RetrievedPages(inv)) = 1
    /\ Len(SelectSeq(Events(inv), IsFullCitation)) = 1

\* What an entry of the trace is, for the order of the entries.
Mark(e) ==
    CASE e.type = "http" -> <<e.endpoint, e.page_id>>
      [] e.type = "citation" -> <<"citation", e.page_id>>
      [] e.type = "status" /\ e.done -> <<"done", 0>>
      [] e.type = "status" /\ e.description = "Ophalen" -> <<"fetch", 0>>
      [] OTHER -> <<"progress", 0>>

Marks(trace) == [k \in DOMAIN trace |-> Mark(trace[k])]

\* The entries of the turn of page k, in order.
ExpectedPage(i, k) ==
    (IF i.emitter THEN << <<"fetch", 0>> >> ELSE <<>>)
        \o << <<"/pages", i.pages[k].id>> >>
        \o (IF i.emitter /\ (Retrieved(i.pages[k].id) \/ TypedForbidden(i.pages[k].id))
            THEN << <<"citation", i.pages[k].id>> >> ELSE <<>>)

\* The entries of a search that has dealt with its first idx - 1 pages.
ExpectedTrace(i) ==
    (IF i.emitter THEN << <<"progress", 0>>, <<"/search", 0>>, <<"progress", 0>> >>
     ELSE << <<"/search", 0>> >>)
        \o Flatten([k \in 1..(i.idx - 1) |-> ExpectedPage(i, k)])
        \o (IF i.emitter /\ i.pc = "returned" THEN << <<"done", 0>> >> ELSE <<>>)

\* The order of the entries of a search.
PagesInOrder ==
    /\ (/\ inv.op = "search" /\ inv.idx >= 1
        /\ inv.pc \in {"search_page", "search_finish", "returned"}) =>
            Marks(inv.trace) = ExpectedTrace(inv)
    /\ inv.op = "search" =>
          \A k \in DOMAIN inv.trace :
              IsPageRequest(inv.trace[k]) =>
                  \E j \in 1..(k - 1) : Mark(inv.trace[j]) = <<"/search", 0>>

\* A step of an invocation makes at most one request (and has its answer).
OneRequestAtATime ==
    inv.pc # "idle" => Len(Requests(inv')) <= Len(Requests(inv)) + 1

\* C16: in a search the pages are dealt with one after the other, in the
\* order of the results: the status of page k, then the request for page k,
\* then the citation of page k when there is one (there is one when the page
\* was retrieved or the client raised its error for 403), all before the
\* status of page k + 1; the search request comes before every page request;
\* no step makes more than one request.
PagesInSequence == []PagesInOrder /\ [][OneRequestAtATime]_vars

\* C16 witness: two pages with an emitter, the first forbidden and the second
\* retrieved, and search has returned.
PagesInSequenceWitness ==
    /\ inv.op = "search" /\ inv.pc = "returned" /\ inv.emitter
    /\ Len(inv.pages) = 2
    /\ TypedForbidden(inv.pages[1].id)
    /\ Retrieved(inv.pages[2].id)
    /\ Len(Citations(inv)) = 2

\* The ids of the requested pages, in the order of the requests.
FetchedIds(i) == [k \in DOMAIN PageRequests(i) |-> PageRequests(i)[k].page_id]

\* The ids of the results of type page among the first ResultCap results.
ConsideredPageIds ==
    [k \in DOMAIN OnlyPages(Considered) |-> OnlyPages(Considered)[k].id]

\* C17, as claimed: for every max_pages, also zero and negative ones, search
\* requests only pages among the first ResultCap results, only results of
\* type page, in the order of the results and none twice, and the number of
\* page requests is at most max_pages (at most none for a max_pages below
\* zero) and at most ResultCap.
FetchesWithinLimits ==
    (inv.op = "search" /\ SearchAnswered) =>
        /\ Len(FetchedIds(inv)) <= Len(ConsideredPageIds)
        /\ FetchedIds(inv) = SubSeq(ConsideredPageIds, 1, Len(FetchedIds(inv)))
        /\ Len(FetchedIds(inv)) <= ResultCap
        /\ Len(FetchedIds(inv)) <= Max(inv.max_pages, 0)

\* The fetch of the page is answered with status 403.
AnsweredForbidden(page_id) ==
    PageReply(page_id).kind = "response" /\ PageReply(page_id).status_code = 403

IsPermission(l) == l.kind = "permission"

\* C18, as claimed: the text search returns has the permission block exactly
\* when the fetch of one of its pages failed with status 403; the block is
\* there once, after the sections of all pages.
PermissionBlockIffForbidden ==
    (inv.op = "search" /\ inv.pc = "returned") =>
        /\ HasKind(inv.result, "permission") <=>
               \E k \in DOMAIN inv.pages : AnsweredForbidden(inv.pages[k].id)
        /\ HasKind(inv.result, "permission") =>
               /\ EndsWithPermissionBlock(inv.result)
               /\ Len(SelectSeq(inv.result, IsPermission)) = PermissionLines

\* The fetch of the page succeeds, but there is no markdown and the HTML,
\* cleaned, is empty.
EmptyPage(page_id) ==
    /\ get(PageReply(page_id)).ret = "return"
    /\ get(PageReply(page_id)).data.t = "object"
    /\ page_content(get(PageReply(page_id)).data.v) = <<>>

\* The lines of the section of page number k: from its heading up to the
\* next heading, the permission block or the end.
Section(lines, k) ==
    LET p == CHOOSE q \in DOMAIN lines : lines[q].kind = "heading" /\ lines[q].idx = k
        stops == {q \in (p + 1)..Len(lines) : lines[q].kind \in {"heading", "permission"}}
        end == IF stops = {} THEN Len(lines)
               ELSE (CHOOSE q \in stops : \A r \in stops : q <= r) - 1
    IN  SubSeq(lines, p, end)

\* What holds of every page without content whatever its section says:
\* the section is there, nothing is cited for the page, the page is not
\* counted, it does not bring the permission block, the other pages follow.
EmptyPageIsNoSuccess ==
    /\ Len(Headings(inv.result)) = Len(inv.pages)
    /\ inv.success_count = Cardinality(RetrievedPages(inv))
    /\ (\A k \in DOMAIN inv.pages : EmptyPage(inv.pages[k].id)) =>
          ~HasKind(inv.result, "permission")
    /\ \A k \in DOMAIN inv.pages :
          EmptyPage(inv.pages[k].id) =>
              \A c \in DOMAIN Citations(inv) :
                  Citations(inv)[c].page_id # inv.pages[k].id

\* C19, as claimed: a page whose fetch succeeds without content gets the
\* section of a typed failure that is neither 403 nor 404 (the API error
\* section), no citation, is not counted, brings no permission block, and
\* the next page is dealt with.
EmptyPageIsApiError ==
    (inv.op = "search" /\ inv.pc = "returned") =>
        /\ EmptyPageIsNoSuccess
        /\ \A k \in DOMAIN inv.pages :
              EmptyPage(inv.pages[k].id) =>
                  /\ Len(Section(inv.result, k)) >= 3
                  /\ Section(inv.result, k)[3].kind = "api_error"

\* C19, amended: a page whose fetch succeeds without content gets the
\* section of an untyped failure: heading, link of the search result, the
\* unexpected-error line naming ValueError, its details, and the excerpt
\* when there is one; no citation, not counted, no permission block, and the
\* next page is dealt with.
EmptyPageIsUnexpectedError ==
    (inv.op = "search" /\ inv.pc = "returned") =>
        /\ EmptyPageIsNoSuccess
        /\ \A k \in DOMAIN inv.pages :
              EmptyPage(inv.pages[k].id) =>
                  Section(inv.result, k) =
                      <<Heading(k, inv.pages[k]),
                        Link(DictGet(inv.pages[k], "url", "")),
                        [Line("unexpected") EXCEPT !.error = "ValueError"],
                        Line("details")>> \o Summary(inv.pages[k])

\* C19 witness: two pages with an emitter; the first has HTML that is empty
\* once cleaned, the second is retrieved; search has returned.
EmptyPageWitness ==
    /\ inv.op = "search" /\ inv.pc = "returned" /\ inv.emitter
    /\ Len(inv.pages) = 2
    /\ EmptyPage(inv.pages[1].id)
    /\ DictGet(PageReply(inv.pages[1].id).body.v, "html", <<>>) # <<>>
    /\ Retrieved(inv.pages[2].id)

\* C20: a get_page that returns has, with an emitter, emitted exactly a
\* status with done=false, a citation and a status with done=true, in that
\* order; the document of the citation is the body when the body has at most
\* PreviewLen characters, and its first PreviewLen characters followed by
\* "..." when it has more; the last part of the returned text is the whole
\* body.
GetPageEventsInOrder ==
    (inv.op = "get_page" /\ inv.pc = "returned") =>
        LET body == format_content(get(PageReply(inv.page_id)).data.v, inv.format)
            ev == Events(inv)
        IN  /\ inv.result[Len(inv.result)] = [Line("content") EXCEPT !.text = body]
            /\ ~inv.emitter => ev = <<>>
            /\ inv.emitter =>
                  /\ Len(ev) = 3
                  /\ ev[1].type = "status" /\ ~ev[1].done
                  /\ ev[2].type = "citation"
                  /\ ev[3].type = "status" /\ ev[3].done
                  /\ ev[2].document =
                        IF Len(body) > PreviewLen
                        THEN SubSeq(body, 1, PreviewLen) \o <<".", ".", ".">>
                        ELSE body
                  /\ Mark(inv.trace[1]) = <<"progress", 0>>
                  /\ Mark(inv.trace[2]) = <<"/pages", inv.page_id>>

\* C20 witness: get_page has returned, with an emitter, a body of more than
\* PreviewLen characters.
GetPageLongBodyWitness ==
    /\ inv.op = "get_page" /\ inv.pc = "returned" /\ inv.emitter
    /\ Len(inv.result[Len(inv.result)].text) > PreviewLen
    /\ Len(Citations(inv)[1].document) = PreviewLen + 3

\* C20 witness for a body of exactly PreviewLen characters.
GetPageExactBodyWitness ==
    /\ inv.op = "get_page" /\ inv.pc = "returned" /\ inv.emitter
    /\ Len(inv.result[Len(inv.result)].text) = PreviewLen
    /\ Citations(inv)[1].document = inv.result[Len(inv.result)].text

====
